---- MODULE Spec2Model ----
(***************************************************************************)
(* 3D bin-packing engine: the Maximal-Rectangles packer of                 *)
(* src/src/core/packing.py and the two-stage pipeline of src/main.py and   *)
(* src/palet_app/services.py, as a state machine.                          *)
(*                                                                         *)
(* Lengths and weights are integers (the code holds them as floats; every  *)
(* input used here is integral, so sums, products and comparisons are      *)
(* exact).  A ratio compared with a threshold (fill >= 0.90) is compared   *)
(* by cross-multiplication, and int(a / b) of non-negative a, b is a \div b.*)
(* Python lists are sequences, Python's 0-based index i is i+1.            *)
(***************************************************************************)
EXTENDS Integers, Sequences, FiniteSets, TLC

VARIABLES
    palet_cfg,        \* PaletConfig of the run
    all_products,     \* the product list handed to the entry point
    entry,            \* "packer" | "standalone" | "service" | "shelf": the entry
                      \* point called
    algorithm,        \* "greedy" | "genetic" (run_optimization_standalone's argument)
    pc,               \* position of the run
    theo_min,         \* main.py: theoretical minimum pallet count
    groups,           \* group_products_smart(all_products), as a sequence of groups
    gi,               \* index of the next group of the single-pallet loop
    single_pallets,   \* SINGLE pallets emitted so far
    mix_pool,         \* products left for the mix stage
    urunler,          \* the packer's input sequence (either packer)
    idx,              \* the packer's loop: index of the next product
    pallets,          \* pack_maximal_rectangles: finalized pallets
    current_pallet,   \* pack_maximal_rectangles: the open pallet
    new_free_rects,   \* pack_maximal_rectangles: its local of lines 333-342
    path,             \* pack_maximal_rectangles: the branch its last iteration took
    mix_pallets,      \* main.py: MIX pallets of the report
    total_pallets,    \* main.py: total pallet count of the report
    rot_gen,          \* pack_shelf_based: the rotation genes
    shelf,            \* pack_shelf_based: its locals (pallets, current_items, x, ...)
    result            \* basit_palet_paketleme: the list it returns

vars == <<palet_cfg, all_products, entry, algorithm, pc, theo_min, groups, gi,
          single_pallets, mix_pool, urunler, idx, pallets, current_pallet,
          new_free_rects, path, mix_pallets, total_pallets,
          rot_gen, shelf, result>>

---------------------------------------------------------------------------
(* Bounds of the model *)

\* longest product sequence handed directly to pack_maximal_rectangles
MaxSeq == 4
\* longest product list handed to the pipeline
MaxItems == 3
\* longest product sequence handed to pack_shelf_based
MaxShelf == 2

---------------------------------------------------------------------------
(* Generic helpers *)

Min(a, b) == IF a < b THEN a ELSE b
Max(a, b) == IF a > b THEN a ELSE b

\* ceil(a / b) for a >= 0, b > 0
CeilDiv(a, b) == (a + b - 1) \div b

RECURSIVE SumSeq(_)
SumSeq(s) == IF s = <<>> THEN 0 ELSE Head(s) + SumSeq(Tail(s))

RECURSIVE Flatten(_)
Flatten(ss) == IF ss = <<>> THEN <<>> ELSE Head(ss) \o Flatten(Tail(ss))

\* the elements of seq whose index is in keep, in order
RECURSIVE KeepIndices(_, _, _)
KeepIndices(seq, keep, i) ==
    IF i > Len(seq) THEN <<>>
    ELSE (IF i \in keep THEN <<seq[i]>> ELSE <<>>) \o KeepIndices(seq, keep, i + 1)

---------------------------------------------------------------------------
(* Data model: src/src/models *)

PaletConfig(length, width, height, max_weight) ==
    [length |-> length, width |-> width, height |-> height,
     max_weight |-> max_weight]

\* PaletConfig.volume
Volume(cfg) == cfg.length * cfg.width * cfg.height

UrunData(urun_id, code, boy, en, yukseklik, agirlik, donus_serbest) ==
    [id |-> urun_id, urun_kodu |-> code, boy |-> boy, en |-> en,
     yukseklik |-> yukseklik, agirlik |-> agirlik,
     donus_serbest |-> donus_serbest]

\* helpers.urun_hacmi
urun_hacmi(u) == u.boy * u.en * u.yukseklik

\* helpers.possible_orientations_for: base triple first, then the horizontal
\* swap when the product may rotate and the swap is a distinct triple
possible_orientations_for(u) ==
    IF u.donus_serbest /\ u.boy # u.en
    THEN << <<u.boy, u.en, u.yukseklik>>, <<u.en, u.boy, u.yukseklik>> >>
    ELSE << <<u.boy, u.en, u.yukseklik>> >>

---------------------------------------------------------------------------
(* Geometry: src/src/core/packing.py *)

FreeRectangle(x, y, z, length, width, height) ==
    [x |-> x, y |-> y, z |-> z,
     length |-> length, width |-> width, height |-> height]

\* FreeRectangle.volume
RectVolume(rect) == rect.length * rect.width * rect.height

can_fit(rect, item_l, item_w, item_h) ==
    /\ rect.length >= item_l
    /\ rect.width >= item_w
    /\ rect.height >= item_h

\* mutation of intersects_3d: the first test forgets the placed box's length
intersects_3d_short(rect, placed_x, placed_y, placed_z, placed_l, placed_w, placed_h) ==
    ~ \/ rect.x >= placed_x
      \/ placed_x >= rect.x + rect.length
      \/ rect.y >= placed_y + placed_w
      \/ placed_y >= rect.y + rect.width
      \/ rect.z >= placed_z + placed_h
      \/ placed_z >= rect.z + rect.height

intersects_3d(rect, placed_x, placed_y, placed_z, placed_l, placed_w, placed_h) ==
    ~ \/ rect.x >= placed_x + placed_l
      \/ placed_x >= rect.x + rect.length
      \/ rect.y >= placed_y + placed_w
      \/ placed_y >= rect.y + rect.width
      \/ rect.z >= placed_z + placed_h
      \/ placed_z >= rect.z + rect.height

\* mutation of split_rectangle_maximal: the sub-rect past the box along x
\* is as long as the rect minus the box
split_rectangle_maximal_long(rect, placed_x, placed_y, placed_z, placed_l, placed_w, placed_h) ==
    (IF rect.x < placed_x
     THEN << FreeRectangle(rect.x, rect.y, rect.z,
                           placed_x - rect.x, rect.width, rect.height) >>
     ELSE <<>>)
    \o
    (IF placed_l < rect.length
     THEN << FreeRectangle(placed_x + placed_l, rect.y, rect.z,
                           rect.length - placed_l, rect.width, rect.height) >>
     ELSE <<>>)
    \o
    (IF rect.y < placed_y
     THEN << FreeRectangle(rect.x, rect.y, rect.z,
                           rect.length, placed_y - rect.y, rect.height) >>
     ELSE <<>>)
    \o
    (IF placed_y + placed_w < rect.y + rect.width
     THEN << FreeRectangle(rect.x, placed_y + placed_w, rect.z,
                           rect.length,
                           (rect.y + rect.width) - (placed_y + placed_w),
                           rect.height) >>
     ELSE <<>>)
    \o
    (IF rect.z < placed_z
     THEN << FreeRectangle(rect.x, rect.y, rect.z,
                           rect.length, rect.width, placed_z - rect.z) >>
     ELSE <<>>)
    \o
    (IF placed_z + placed_h < rect.z + rect.height
     THEN << FreeRectangle(rect.x, rect.y, placed_z + placed_h,
                           rect.length, rect.width,
                           (rect.z + rect.height) - (placed_z + placed_h)) >>
     ELSE <<>>)

\* mutation of split_rectangle_maximal: the sub-rect above the box is missing
split_rectangle_maximal_flat(rect, placed_x, placed_y, placed_z, placed_l, placed_w, placed_h) ==
    (IF rect.x < placed_x
     THEN << FreeRectangle(rect.x, rect.y, rect.z,
                           placed_x - rect.x, rect.width, rect.height) >>
     ELSE <<>>)
    \o
    (IF placed_x + placed_l < rect.x + rect.length
     THEN << FreeRectangle(placed_x + placed_l, rect.y, rect.z,
                           (rect.x + rect.length) - (placed_x + placed_l),
                           rect.width, rect.height) >>
     ELSE <<>>)
    \o
    (IF rect.y < placed_y
     THEN << FreeRectangle(rect.x, rect.y, rect.z,
                           rect.length, placed_y - rect.y, rect.height) >>
     ELSE <<>>)
    \o
    (IF placed_y + placed_w < rect.y + rect.width
     THEN << FreeRectangle(rect.x, placed_y + placed_w, rect.z,
                           rect.length,
                           (rect.y + rect.width) - (placed_y + placed_w),
                           rect.height) >>
     ELSE <<>>)
    \o
    (IF rect.z < placed_z
     THEN << FreeRectangle(rect.x, rect.y, rect.z,
                           rect.length, rect.width, placed_z - rect.z) >>
     ELSE <<>>)

split_rectangle_maximal(rect, placed_x, placed_y, placed_z, placed_l, placed_w, placed_h) ==
    (IF rect.x < placed_x
     THEN << FreeRectangle(rect.x, rect.y, rect.z,
                           placed_x - rect.x, rect.width, rect.height) >>
     ELSE <<>>)
    \o
    (IF placed_x + placed_l < rect.x + rect.length
     THEN << FreeRectangle(placed_x + placed_l, rect.y, rect.z,
                           (rect.x + rect.length) - (placed_x + placed_l),
                           rect.width, rect.height) >>
     ELSE <<>>)
    \o
    (IF rect.y < placed_y
     THEN << FreeRectangle(rect.x, rect.y, rect.z,
                           rect.length, placed_y - rect.y, rect.height) >>
     ELSE <<>>)
    \o
    (IF placed_y + placed_w < rect.y + rect.width
     THEN << FreeRectangle(rect.x, placed_y + placed_w, rect.z,
                           rect.length,
                           (rect.y + rect.width) - (placed_y + placed_w),
                           rect.height) >>
     ELSE <<>>)
    \o
    (IF rect.z < placed_z
     THEN << FreeRectangle(rect.x, rect.y, rect.z,
                           rect.length, rect.width, placed_z - rect.z) >>
     ELSE <<>>)
    \o
    (IF placed_z + placed_h < rect.z + rect.height
     THEN << FreeRectangle(rect.x, rect.y, placed_z + placed_h,
                           rect.length, rect.width,
                           (rect.z + rect.height) - (placed_z + placed_h)) >>
     ELSE <<>>)

\* the containment test of remove_redundant_rectangles: rect1 inside rect2
is_contained_in(rect1, rect2) ==
    /\ rect2.x <= rect1.x
    /\ rect2.y <= rect1.y
    /\ rect2.z <= rect1.z
    /\ rect2.x + rect2.length >= rect1.x + rect1.length
    /\ rect2.y + rect2.width >= rect1.y + rect1.width
    /\ rect2.z + rect2.height >= rect1.z + rect1.height

\* mutation of remove_redundant_rectangles: the test forgets where the
\* other rect starts, so a rect is dropped when another one ends at or past
\* its end on every axis
remove_redundant_rectangles_ends(rects) ==
    KeepIndices(rects,
                {i \in 1..Len(rects) :
                    ~ \E j \in 1..Len(rects) :
                        /\ j # i
                        /\ rects[j].x + rects[j].length >= rects[i].x + rects[i].length
                        /\ rects[j].y + rects[j].width >= rects[i].y + rects[i].width
                        /\ rects[j].z + rects[j].height >= rects[i].z + rects[i].height},
                1)

remove_redundant_rectangles(rects) ==
    KeepIndices(rects,
                {i \in 1..Len(rects) :
                    ~ \E j \in 1..Len(rects) :
                        j # i /\ is_contained_in(rects[i], rects[j])},
                1)

---------------------------------------------------------------------------
(* pack_maximal_rectangles: src/src/core/packing.py *)

\* a fresh open pallet (lines 228-235, 247-254, 285-292)
NewPallet(cfg) ==
    [items |-> <<>>,
     weight |-> 0,
     free_rects |-> << FreeRectangle(0, 0, 0, cfg.length, cfg.width, cfg.height) >>]

\* what pallets.append stores of an open pallet
Finalized(cp) == [items |-> cp.items, weight |-> cp.weight]

\* best_rect = None, best_orientation = None, min_short_side = inf
NoBest ==
    [found |-> FALSE, rect |-> FreeRectangle(0, 0, 0, 0, 0, 0),
     orientation |-> <<0, 0, 0>>, min_short_side |-> 0]

\* mutation of auto_orientation: the first pair that fits is taken
RECURSIVE auto_orientation_first(_, _, _, _)
auto_orientation_first(orientations, free_rects, k, best) ==
    IF k >= Len(orientations) * Len(free_rects) THEN best
    ELSE LET dims == orientations[(k \div Len(free_rects)) + 1]
             rect == free_rects[(k % Len(free_rects)) + 1]
             short_side == Min(rect.length - dims[1], rect.width - dims[2])
         IN  auto_orientation_first(orientations, free_rects, k + 1,
                 IF can_fit(rect, dims[1], dims[2], dims[3]) /\ ~best.found
                 THEN [found |-> TRUE, rect |-> rect, orientation |-> dims,
                       min_short_side |-> short_side]
                 ELSE best)

\* the nested loop "for dims in orientations: for rect in free_rects", from
\* its k-th iteration on (k counts from 0), carrying the best found so far
RECURSIVE auto_orientation(_, _, _, _)
auto_orientation(orientations, free_rects, k, best) ==
    IF k >= Len(orientations) * Len(free_rects) THEN best
    ELSE LET dims == orientations[(k \div Len(free_rects)) + 1]
             rect == free_rects[(k % Len(free_rects)) + 1]
             residual_l == rect.length - dims[1]
             residual_w == rect.width - dims[2]
             short_side == Min(residual_l, residual_w)
             better == /\ can_fit(rect, dims[1], dims[2], dims[3])
                       /\ (~best.found \/ short_side < best.min_short_side)
         IN  auto_orientation(orientations, free_rects, k + 1,
                 IF better
                 THEN [found |-> TRUE, rect |-> rect, orientation |-> dims,
                       min_short_side |-> short_side]
                 ELSE best)

\* lines 240-254: the weight check that may close the open pallet
weight_check(st, urun, cfg) ==
    IF st.current_pallet.weight + urun.agirlik > cfg.max_weight
    THEN [pallets |-> IF st.current_pallet.items # <<>>
                      THEN Append(st.pallets, Finalized(st.current_pallet))
                      ELSE st.pallets,
          current_pallet |-> NewPallet(cfg)]
    ELSE st

\* mutation of no_fit_new_pallet: the open pallet is closed even when empty
no_fit_new_pallet_always(st, cfg) ==
    [pallets |-> Append(st.pallets, Finalized(st.current_pallet)),
     current_pallet |-> NewPallet(cfg)]

\* lines 277-292: no orientation fits, so the open pallet is closed
no_fit_new_pallet(st, cfg) ==
    [pallets |-> IF st.current_pallet.items # <<>>
                 THEN Append(st.pallets, Finalized(st.current_pallet))
                 ELSE st.pallets,
     current_pallet |-> NewPallet(cfg)]

\* mutation of fallback_choice: the product is cut down to the free rect
fallback_choice_clip(free_rects, orientations) ==
    [found |-> TRUE, rect |-> free_rects[1],
     orientation |-> <<free_rects[1].length, free_rects[1].width,
                       free_rects[1].height>>,
     min_short_side |-> 0]

\* lines 313-315: nothing fits the fresh pallet either
fallback_choice(free_rects, orientations) ==
    [found |-> TRUE, rect |-> free_rects[1], orientation |-> orientations[1],
     min_short_side |-> 0]

\* lines 333-342: every intersecting free rect is replaced by its sub-rects
split_all(free_rects, placed_x, placed_y, placed_z, u_l, u_w, u_h) ==
    Flatten([i \in 1..Len(free_rects) |->
        IF intersects_3d(free_rects[i], placed_x, placed_y, placed_z, u_l, u_w, u_h)
        THEN split_rectangle_maximal(free_rects[i], placed_x, placed_y, placed_z,
                                     u_l, u_w, u_h)
        ELSE << free_rects[i] >>])

\* lines 332-347: split every intersecting free rect, then prune
split_free_rects(free_rects, placed_x, placed_y, placed_z, u_l, u_w, u_h) ==
    remove_redundant_rectangles(
        split_all(free_rects, placed_x, placed_y, placed_z, u_l, u_w, u_h))

\* mutation of place_item: the placement is put in front of the list
place_item_front(cp, urun, best) ==
    [items |-> << [urun |-> urun, x |-> best.rect.x, y |-> best.rect.y,
                   z |-> best.rect.z, L |-> best.orientation[1],
                   W |-> best.orientation[2], H |-> best.orientation[3]] >>
               \o cp.items,
     weight |-> cp.weight + urun.agirlik,
     free_rects |-> split_free_rects(cp.free_rects, best.rect.x, best.rect.y,
                                     best.rect.z, best.orientation[1],
                                     best.orientation[2], best.orientation[3])]

\* mutation of place_item: the placement replaces the last one of the list
place_item_overwrite(cp, urun, best) ==
    [items |-> SubSeq(cp.items, 1, Len(cp.items) - 1)
               \o << [urun |-> urun, x |-> best.rect.x, y |-> best.rect.y,
                      z |-> best.rect.z, L |-> best.orientation[1],
                      W |-> best.orientation[2], H |-> best.orientation[3]] >>,
     weight |-> cp.weight + urun.agirlik,
     free_rects |-> split_free_rects(cp.free_rects, best.rect.x, best.rect.y,
                                     best.rect.z, best.orientation[1],
                                     best.orientation[2], best.orientation[3])]

\* lines 317-347: place urun at best.rect's corner in best.orientation
place_item(cp, urun, best) ==
    LET u_l == best.orientation[1]
        u_w == best.orientation[2]
        u_h == best.orientation[3]
        placed_x == best.rect.x
        placed_y == best.rect.y
        placed_z == best.rect.z
    IN  [items |-> Append(cp.items,
                          [urun |-> urun, x |-> placed_x, y |-> placed_y,
                           z |-> placed_z, L |-> u_l, W |-> u_w, H |-> u_h]),
         weight |-> cp.weight + urun.agirlik,
         free_rects |-> split_free_rects(cp.free_rects, placed_x, placed_y,
                                         placed_z, u_l, u_w, u_h)]

\* which path the loop body takes for urun: "fit" (lines 263-275 found a rect),
\* "retry" (the fresh pallet took it), "fallback" (lines 313-315)
pack_path(st, urun, cfg) ==
    LET st1 == weight_check(st, urun, cfg)
        orientations == possible_orientations_for(urun)
        best1 == auto_orientation(orientations, st1.current_pallet.free_rects, 0, NoBest)
        best2 == auto_orientation(orientations, NewPallet(cfg).free_rects, 0, NoBest)
    IN  IF best1.found THEN "fit"
        ELSE IF best2.found THEN "retry" ELSE "fallback"

\* lines 237-315 of one iteration: the pallet list and the open pallet the
\* product is about to be placed on, with best_rect and best_orientation
loop_choice(st, urun, cfg) ==
    LET st1 == weight_check(st, urun, cfg)
        orientations == possible_orientations_for(urun)
        best1 == auto_orientation(orientations, st1.current_pallet.free_rects, 0, NoBest)
        st2 == IF best1.found THEN st1 ELSE no_fit_new_pallet(st1, cfg)
        best2 == IF best1.found THEN best1
                 ELSE auto_orientation(orientations,
                                       << st2.current_pallet.free_rects[1] >>, 0, NoBest)
        best3 == IF best2.found THEN best2
                 ELSE fallback_choice(st2.current_pallet.free_rects, orientations)
    IN  [pallets |-> st2.pallets, current_pallet |-> st2.current_pallet,
         best |-> best3]

\* one iteration of "for idx, urun in enumerate(urunler)" (lines 237-347)
loop_body(st, urun, cfg) ==
    LET c == loop_choice(st, urun, cfg)
    IN  [pallets |-> c.pallets,
         current_pallet |-> place_item(c.current_pallet, urun, c.best)]

\* the value of new_free_rects when the iteration ends (lines 333-342)
loop_new_free_rects(st, urun, cfg) ==
    LET c == loop_choice(st, urun, cfg)
    IN  split_all(c.current_pallet.free_rects, c.best.rect.x, c.best.rect.y,
                  c.best.rect.z, c.best.orientation[1], c.best.orientation[2],
                  c.best.orientation[3])

\* mutation of final_pallets: the last open pallet is forgotten
final_pallets_forget(st) == st.pallets

\* lines 349-356: the last open pallet joins the result unless it is empty
final_pallets(st) ==
    IF st.current_pallet.items # <<>>
    THEN Append(st.pallets, Finalized(st.current_pallet))
    ELSE st.pallets

---------------------------------------------------------------------------
(* pack_shelf_based and basit_palet_paketleme: src/src/core/packing.py *)

\* lines 372-378: the locals before the loop
NewShelf ==
    [pallets |-> <<>>, current_items |-> <<>>, x |-> 0, y |-> 0, z |-> 0,
     current_weight |-> 0, current_shelf_height |-> 0, current_shelf_y |-> 0]

\* lines 383-389: the orientation index of the i-th product (i counts from
\* 1) among n_dims orientations
shelf_rotation(genes, i, n_dims) ==
    LET r == IF genes # <<>> /\ i <= Len(genes) THEN genes[i] ELSE 0
    IN  IF r >= n_dims THEN 0 ELSE r

\* lines 394-398 and 412-416: the open pallet joins the list as it is and a
\* new one starts
shelf_close(s) ==
    [s EXCEPT !.pallets = Append(@, [items |-> s.current_items,
                                     weight |-> s.current_weight]),
              !.current_items = <<>>,
              !.current_weight = 0,
              !.x = 0, !.y = 0, !.z = 0,
              !.current_shelf_height = 0,
              !.current_shelf_y = 0]

\* one iteration of "for idx, urun in enumerate(urunler)" (lines 382-429)
shelf_body(s, urun, genes, i, cfg) ==
    LET dims == possible_orientations_for(urun)
        r == shelf_rotation(genes, i, Len(dims))
        u_l == dims[r + 1][1]
        u_w == dims[r + 1][2]
        u_h == dims[r + 1][3]
        u_wgt == urun.agirlik
        \* lines 393-398
        s1 == IF s.current_weight + u_wgt > cfg.max_weight THEN shelf_close(s) ELSE s
        \* lines 400-403
        s2 == IF s1.x + u_l > cfg.length
              THEN [s1 EXCEPT !.x = 0,
                              !.y = @ + (IF s1.current_shelf_y > 0
                                         THEN s1.current_shelf_y ELSE u_w),
                              !.current_shelf_y = 0]
              ELSE s1
        \* lines 405-409
        s3 == IF s2.y + u_w > cfg.width
              THEN [s2 EXCEPT !.x = 0, !.y = 0,
                              !.z = @ + (IF s2.current_shelf_height > 0
                                         THEN s2.current_shelf_height ELSE u_h),
                              !.current_shelf_height = 0]
              ELSE s2
        \* lines 411-416
        s4 == IF s3.z + u_h > cfg.height THEN shelf_close(s3) ELSE s3
    IN  \* lines 418-429
        [s4 EXCEPT !.current_items = Append(@, [urun |-> urun, x |-> s4.x,
                                                y |-> s4.y, z |-> s4.z,
                                                L |-> u_l, W |-> u_w, H |-> u_h]),
                   !.current_weight = @ + u_wgt,
                   !.x = @ + u_l,
                   !.current_shelf_height = Max(@, u_h),
                   !.current_shelf_y = Max(@, u_w)]

\* lines 431-434: the last open pallet joins the list unless it is empty
shelf_final(s) ==
    IF s.current_items # <<>>
    THEN Append(s.pallets, [items |-> s.current_items, weight |-> s.current_weight])
    ELSE s.pallets

\* basit_palet_paketleme, lines 451-469: each pallet as placements and weight
basit_result(shelf_pallets) ==
    [i \in 1..Len(shelf_pallets) |->
        [placements |-> shelf_pallets[i].items, weight |-> shelf_pallets[i].weight]]

---------------------------------------------------------------------------
(* Grouping and the single-pallet simulator (src/utils/helpers.py and      *)
(* src/core/single_pallet.py, imported by main.py and services.py)         *)

\* identical SKUs share a key
GroupKey(u) == <<u.urun_kodu, u.boy, u.en, u.yukseklik, u.agirlik>>

\* groups in order of first appearance, each in insertion order
RECURSIVE group_fold(_, _, _)
group_fold(products, i, acc) ==
    IF i > Len(products) THEN acc
    ELSE LET u == products[i]
             hit == {j \in 1..Len(acc) : GroupKey(acc[j][1]) = GroupKey(u)}
         IN  group_fold(products, i + 1,
                 IF hit = {} THEN Append(acc, <<u>>)
                 ELSE LET j == CHOOSE j \in hit : TRUE
                      IN  [acc EXCEPT ![j] = Append(@, u)])

group_products_smart(products) == group_fold(products, 1, <<>>)

\* single-pallet threshold on the fill of a full grid, in percent
SingleFillPct == 50

\* partial-pallet threshold on the fill of a remainder, in percent
PartialFillPct == 90

\* axis-aligned grid of one orientation
grid_counts(dims, cfg) ==
    <<cfg.length \div dims[1], cfg.width \div dims[2], cfg.height \div dims[3]>>

\* grid capacity of one orientation, clipped to the weight-limited count
orientation_capacity(u, dims, cfg) ==
    LET n == grid_counts(dims, cfg)
        cap == n[1] * n[2] * n[3]
    IN  IF u.agirlik > 0 THEN Min(cap, cfg.max_weight \div u.agirlik) ELSE cap

simulate_single_pallet(group_items, cfg) ==
    LET u == group_items[1]
        os == possible_orientations_for(u)
        capOf(i) == orientation_capacity(u, os[i], cfg)
        best == CHOOSE i \in 1..Len(os) :
                    /\ \A j \in 1..Len(os) : capOf(j) <= capOf(i)
                    /\ \A j \in 1..(i - 1) : capOf(j) < capOf(i)
        cap == capOf(best)
    IN  [can_be_single |-> /\ cap >= 1
                           /\ 100 * cap * urun_hacmi(u) >= SingleFillPct * Volume(cfg),
         capacity |-> cap,
         orientation |-> os[best]]

\* row-major grid: x inner, then y, then z, until the items or the grid end
generate_grid_placement(palet_items, cfg) ==
    LET dims == simulate_single_pallet(palet_items, cfg).orientation
        n == grid_counts(dims, cfg)
        count == Min(Len(palet_items), n[1] * n[2] * n[3])
    IN  [i \in 1..count |->
            [urun |-> palet_items[i],
             x |-> ((i - 1) % n[1]) * dims[1],
             y |-> (((i - 1) \div n[1]) % n[2]) * dims[2],
             z |-> ((i - 1) \div (n[1] * n[2])) * dims[3],
             L |-> dims[1], W |-> dims[2], H |-> dims[3]]]

---------------------------------------------------------------------------
(* The single-pallet loop of the two orchestrators, one group at a time *)

\* the pallet record both orchestrators build from a grid placement
SinglePallet(urun_kodu, placements) ==
    [type |-> "SINGLE", urun_kodu |-> urun_kodu, items |-> placements,
     item_count |-> Len(placements)]

\* group_items[-remainder:] for remainder > 0
LastItems(group_items, remainder) ==
    SubSeq(group_items, Len(group_items) - remainder + 1, Len(group_items))

\* mutation of standalone_group: the remainder is dropped instead of pooled
standalone_group_drop(group_items, cfg) ==
    LET sim == simulate_single_pallet(group_items, cfg)
        total_qty == Len(group_items)
        capacity == sim.capacity
        num_full == total_qty \div capacity
    IN  IF sim.can_be_single
        THEN [single |-> [i \in 1..num_full |->
                            SinglePallet(group_items[1].urun_kodu,
                                generate_grid_placement(
                                    SubSeq(group_items, (i - 1) * capacity + 1, i * capacity),
                                    cfg))],
              mix |-> <<>>]
        ELSE [single |-> <<>>, mix |-> group_items]

\* mutation of standalone_group: the partial test compares with > instead of >=
standalone_group_strict(group_items, cfg) ==
    LET sim == simulate_single_pallet(group_items, cfg)
        total_qty == Len(group_items)
        capacity == sim.capacity
        item_volume == urun_hacmi(group_items[1])
        num_full == total_qty \div capacity
        remainder == total_qty % capacity
        partial == /\ remainder > 0
                   /\ 100 * remainder * item_volume > PartialFillPct * Volume(cfg)
    IN  IF sim.can_be_single
        THEN [single |->
                [i \in 1..num_full |->
                    SinglePallet(group_items[1].urun_kodu,
                        generate_grid_placement(
                            SubSeq(group_items, (i - 1) * capacity + 1, i * capacity),
                            cfg))]
                \o (IF partial
                    THEN << SinglePallet(group_items[1].urun_kodu,
                                generate_grid_placement(
                                    LastItems(group_items, remainder), cfg)) >>
                    ELSE <<>>),
              mix |-> IF remainder > 0 /\ ~partial
                      THEN LastItems(group_items, remainder) ELSE <<>>]
        ELSE [single |-> <<>>, mix |-> group_items]

\* main.py lines 75-113: what one group adds to single_pallets and mix_pool
standalone_group(group_items, cfg) ==
    LET sim == simulate_single_pallet(group_items, cfg)
        total_qty == Len(group_items)
        capacity == sim.capacity
        item_volume == urun_hacmi(group_items[1])
        num_full == total_qty \div capacity
        remainder == total_qty % capacity
        \* partial_fill >= 0.90
        partial == /\ remainder > 0
                   /\ 100 * remainder * item_volume >= PartialFillPct * Volume(cfg)
    IN  IF sim.can_be_single
        THEN [single |->
                [i \in 1..num_full |->
                    SinglePallet(group_items[1].urun_kodu,
                        generate_grid_placement(
                            SubSeq(group_items, (i - 1) * capacity + 1, i * capacity),
                            cfg))]
                \o (IF partial
                    THEN << SinglePallet(group_items[1].urun_kodu,
                                generate_grid_placement(
                                    LastItems(group_items, remainder), cfg)) >>
                    ELSE <<>>),
              mix |-> IF remainder > 0 /\ ~partial
                      THEN LastItems(group_items, remainder) ELSE <<>>]
        ELSE [single |-> <<>>, mix |-> group_items]

\* mutation of service_group: a group smaller than the capacity is always
\* rejected
service_group_reject(group_items, cfg) ==
    LET sim == simulate_single_pallet(group_items, cfg)
        total_qty == Len(group_items)
        capacity == sim.capacity
        item_volume == group_items[1].boy * group_items[1].en * group_items[1].yukseklik
        num_full_pallets == total_qty \div capacity
        remainder == total_qty % capacity
        create_partial ==
            /\ remainder > 0
            /\ 100 * remainder * item_volume >= PartialFillPct * Volume(cfg)
    IN  IF ~sim.can_be_single \/ total_qty < capacity
        THEN [single |-> <<>>, mix |-> group_items]
        ELSE [single |->
                [i \in 1..num_full_pallets |->
                    SinglePallet(group_items[1].urun_kodu,
                        generate_grid_placement(
                            SubSeq(group_items, (i - 1) * capacity + 1, i * capacity),
                            cfg))]
                \o (IF create_partial
                    THEN << SinglePallet(group_items[1].urun_kodu,
                                generate_grid_placement(
                                    LastItems(group_items, remainder), cfg)) >>
                    ELSE <<>>),
              mix |-> IF remainder > 0 /\ ~create_partial
                      THEN LastItems(group_items, remainder) ELSE <<>>]

\* services.py lines 89-159: what one group adds to single_pallets and mix_pool
service_group(group_items, cfg) ==
    LET sim == simulate_single_pallet(group_items, cfg)
        total_qty == Len(group_items)
        capacity == sim.capacity
        item_volume == group_items[1].boy * group_items[1].en * group_items[1].yukseklik
        pallet_volume == Volume(cfg)
        enough == total_qty >= capacity
        num_full_pallets == IF enough THEN total_qty \div capacity ELSE 0
        remainder == IF enough THEN total_qty % capacity ELSE total_qty
        \* remainder_fill_ratio >= 0.90 (the ratio is 0 when remainder = 0)
        create_partial ==
            IF enough /\ remainder = 0 THEN FALSE
            ELSE 100 * remainder * item_volume >= PartialFillPct * pallet_volume
    IN  IF ~sim.can_be_single THEN [single |-> <<>>, mix |-> group_items]
        ELSE IF ~enough /\ ~create_partial
        THEN [single |-> <<>>, mix |-> group_items]
        ELSE [single |->
                [i \in 1..num_full_pallets |->
                    SinglePallet(group_items[1].urun_kodu,
                        generate_grid_placement(
                            SubSeq(group_items, (i - 1) * capacity + 1, i * capacity),
                            cfg))]
                \o (IF create_partial /\ remainder > 0
                    THEN << SinglePallet(group_items[1].urun_kodu,
                                generate_grid_placement(
                                    LastItems(group_items, remainder), cfg)) >>
                    ELSE <<>>),
              mix |-> IF ~(create_partial /\ remainder > 0) /\ remainder > 0
                      THEN LastItems(group_items, remainder) ELSE <<>>]

\* main.py lines 58-60: the theoretical minimum pallet count
theoretical_min(products, cfg) ==
    LET total_vol == SumSeq([i \in 1..Len(products) |-> urun_hacmi(products[i])])
    IN  Max(1, (total_vol \div Volume(cfg)) + 1)

\* the order run_ga may hand back: mix_pool[p[1]], mix_pool[p[2]], ...
Permuted(pool, p) == [i \in 1..Len(pool) |-> pool[p[i]]]

\* main.py lines 202-220: the report names pallets only; no product is ever
\* reported as unplaced
UnplacedReported == <<>>

\* main.py lines 142-148: the packer's pallets as MIX pallets
MixPallets(pallets_data) ==
    [i \in 1..Len(pallets_data) |->
        [type |-> "MIX", items |-> pallets_data[i].items,
         item_count |-> Len(pallets_data[i].items),
         weight |-> pallets_data[i].weight]]

---------------------------------------------------------------------------
(* Inputs *)

\* the small pallet of the enumerated inputs: 3 x 2 x 2, 4 kg
SmallCfg == PaletConfig(3, 2, 2, 4)

\* the product types of the enumerated inputs (ids are given by position):
\*   A small cube            B rotatable 2x1 bar       C flat square, fixed
\*   D fills the pallet      E longer than the pallet in both orientations
\*   F heavier than max_weight                    G fits only when rotated
\*   H cube of two thirds of the pallet           I bigger than the pallet
Catalog ==
    { UrunData(0, "A", 1, 1, 1, 1, TRUE),
      UrunData(0, "B", 2, 1, 1, 1, TRUE),
      UrunData(0, "C", 2, 2, 1, 2, FALSE),
      UrunData(0, "D", 3, 2, 2, 3, TRUE),
      UrunData(0, "E", 4, 1, 1, 1, TRUE),
      UrunData(0, "F", 1, 1, 1, 5, FALSE),
      UrunData(0, "G", 1, 3, 1, 1, TRUE),
      UrunData(0, "H", 2, 2, 2, 2, FALSE),
      UrunData(0, "I", 4, 2, 2, 1, TRUE) }

SeqsUpTo(S, n) == UNION {[1..k -> S] : k \in 0..n}

WithIds(products) == [i \in 1..Len(products) |-> [products[i] EXCEPT !.id = i]]

Repeat(u, n) == [i \in 1..n |-> u]

\* the literal scenarios: 100 x 100 x 100 pallets
Scenarios ==
    { [cfg |-> PaletConfig(100, 100, 100, 1000),
       products |-> Repeat(UrunData(0, "S1", 100, 100, 100, 10, TRUE), 1)],
      [cfg |-> PaletConfig(100, 100, 100, 1000),
       products |-> Repeat(UrunData(0, "S2", 50, 50, 50, 10, TRUE), 8)],
      [cfg |-> PaletConfig(100, 100, 100, 1000),
       products |-> Repeat(UrunData(0, "S2", 50, 50, 50, 10, TRUE), 9)],
      [cfg |-> PaletConfig(100, 100, 100, 1000),
       products |-> Repeat(UrunData(0, "S4", 120, 50, 50, 10, TRUE), 1)],
      [cfg |-> PaletConfig(100, 100, 100, 100),
       products |-> Repeat(UrunData(0, "S5", 40, 40, 40, 11, TRUE), 10)] }
    \cup
    { [cfg |-> PaletConfig(100, 100, 100, 1000),
       products |-> Repeat(UrunData(0, "SLAB", 100, 100, 10, 1, TRUE), n)]
      : n \in {3, 9, 12, 19} }

PackerInputs ==
    { [cfg |-> SmallCfg, products |-> s] : s \in SeqsUpTo(Catalog, MaxSeq) }
    \cup Scenarios

PipelineInputs ==
    { [cfg |-> SmallCfg, products |-> s] : s \in SeqsUpTo(Catalog, MaxItems) }
    \cup Scenarios

\* rotation genes: the base orientation, the swap, and an index no product has
RotGenes == 0..2

\* chromosomes of the shelf packer; the genes may be fewer than the products
\* (the empty tuple also stands for rot_gen = None)
ShelfInputs ==
    { [cfg |-> SmallCfg, products |-> s, rot_gen |-> g] :
        s \in SeqsUpTo(Catalog, MaxShelf), g \in SeqsUpTo(RotGenes, MaxShelf) }

---------------------------------------------------------------------------
(* pack_maximal_rectangles called directly (as chromosome_to_palets does) *)

InitPacker ==
    \E inp \in PackerInputs :
        /\ palet_cfg = inp.cfg
        /\ all_products = WithIds(inp.products)
        /\ entry = "packer"
        /\ algorithm = "none"
        /\ pc = "pack"
        /\ theo_min = 0
        /\ groups = <<>>
        /\ gi = 1
        /\ single_pallets = <<>>
        /\ mix_pool = <<>>
        /\ urunler = WithIds(inp.products)
        /\ idx = 1
        /\ pallets = <<>>
        /\ current_pallet = NewPallet(inp.cfg)
        /\ new_free_rects = <<>>
        /\ path = "none"
        /\ mix_pallets = <<>>
        /\ total_pallets = 0
        /\ rot_gen = <<>>
        /\ shelf = NewShelf
        /\ result = <<>>

\* one iteration of the loop over urunler
PackItem ==
    /\ pc = "pack"
    /\ idx <= Len(urunler)
    /\ LET st == loop_body([pallets |-> pallets, current_pallet |-> current_pallet],
                           urunler[idx], palet_cfg)
       IN  /\ pallets' = st.pallets
           /\ current_pallet' = st.current_pallet
           /\ new_free_rects' = loop_new_free_rects(
                   [pallets |-> pallets, current_pallet |-> current_pallet],
                   urunler[idx], palet_cfg)
           /\ path' = pack_path(
                   [pallets |-> pallets, current_pallet |-> current_pallet],
                   urunler[idx], palet_cfg)
    /\ idx' = idx + 1
    /\ UNCHANGED <<rot_gen, shelf, result,
                   palet_cfg, all_products, entry, algorithm, pc, theo_min, groups,
                   gi, single_pallets, mix_pool, urunler, mix_pallets, total_pallets>>

\* the loop is over: the last pallet is added and the list returned
PackFinish ==
    /\ pc = "pack"
    /\ idx > Len(urunler)
    /\ pallets' = final_pallets([pallets |-> pallets, current_pallet |-> current_pallet])
    /\ pc' = "returned"
    /\ UNCHANGED <<rot_gen, shelf, result,
                   new_free_rects, path,
                   palet_cfg, all_products, entry, algorithm, theo_min, groups, gi,
                   single_pallets, mix_pool, urunler, idx, current_pallet,
                   mix_pallets, total_pallets>>


---------------------------------------------------------------------------
(* The pipelines: run_optimization_standalone and single_palet_yerlestirme *)

InitPipeline ==
    \E inp \in PipelineInputs :
      \E run \in { <<"standalone", "greedy">>, <<"standalone", "genetic">>,
                   <<"service", "none">> } :
        /\ palet_cfg = inp.cfg
        /\ all_products = WithIds(inp.products)
        /\ entry = run[1]
        /\ algorithm = run[2]
        /\ pc = "start"
        /\ theo_min = 0
        /\ groups = <<>>
        /\ gi = 1
        /\ single_pallets = <<>>
        /\ mix_pool = <<>>
        /\ urunler = <<>>
        /\ idx = 1
        /\ pallets = <<>>
        /\ current_pallet = NewPallet(inp.cfg)
        /\ new_free_rects = <<>>
        /\ path = "none"
        /\ mix_pallets = <<>>
        /\ total_pallets = 0
        /\ rot_gen = <<>>
        /\ shelf = NewShelf
        /\ result = <<>>

\* main.py lines 50-73: volume analysis and grouping
Load ==
    /\ pc = "start"
    /\ entry = "standalone"
    /\ theo_min' = theoretical_min(all_products, palet_cfg)
    /\ groups' = group_products_smart(all_products)
    /\ pc' = "single"
    /\ UNCHANGED <<rot_gen, shelf, result,
                   new_free_rects, path,
                   palet_cfg, all_products, entry, algorithm, gi, single_pallets,
                   mix_pool, urunler, idx, pallets, current_pallet, mix_pallets,
                   total_pallets>>

\* services.py lines 77-87: conversion and grouping
ServiceLoad ==
    /\ pc = "start"
    /\ entry = "service"
    /\ groups' = group_products_smart(all_products)
    /\ pc' = "single"
    /\ UNCHANGED <<rot_gen, shelf, result,
                   new_free_rects, path,
                   palet_cfg, all_products, entry, algorithm, theo_min, gi,
                   single_pallets, mix_pool, urunler, idx, pallets, current_pallet,
                   mix_pallets, total_pallets>>

\* main.py lines 75-113: one group of the single-pallet loop
StandaloneGroup ==
    /\ pc = "single"
    /\ entry = "standalone"
    /\ gi <= Len(groups)
    /\ LET out == standalone_group(groups[gi], palet_cfg)
       IN  /\ single_pallets' = single_pallets \o out.single
           /\ mix_pool' = mix_pool \o out.mix
    /\ gi' = gi + 1
    /\ UNCHANGED <<rot_gen, shelf, result,
                   new_free_rects, path,
                   palet_cfg, all_products, entry, algorithm, pc, theo_min, groups,
                   urunler, idx, pallets, current_pallet, mix_pallets, total_pallets>>

\* services.py lines 89-159: one group of the single-pallet loop
ServiceGroup ==
    /\ pc = "single"
    /\ entry = "service"
    /\ gi <= Len(groups)
    /\ LET out == service_group(groups[gi], palet_cfg)
       IN  /\ single_pallets' = single_pallets \o out.single
           /\ mix_pool' = mix_pool \o out.mix
    /\ gi' = gi + 1
    /\ UNCHANGED <<rot_gen, shelf, result,
                   new_free_rects, path,
                   palet_cfg, all_products, entry, algorithm, pc, theo_min, groups,
                   urunler, idx, pallets, current_pallet, mix_pallets, total_pallets>>

\* services.py lines 161-170: the mix pool is handed back
ServiceReturn ==
    /\ pc = "single"
    /\ entry = "service"
    /\ gi > Len(groups)
    /\ pc' = "done"
    /\ UNCHANGED <<rot_gen, shelf, result,
                   new_free_rects, path,
                   palet_cfg, all_products, entry, algorithm, theo_min, groups, gi,
                   single_pallets, mix_pool, urunler, idx, pallets, current_pallet,
                   mix_pallets, total_pallets>>

\* main.py lines 119-140: the mix pool goes to the packer, in its own order
\* (greedy, or run_ga found nothing) or in the order of run_ga's chromosome
MixStage ==
    /\ pc = "single"
    /\ entry = "standalone"
    /\ gi > Len(groups)
    /\ mix_pool # <<>>
    /\ \/ urunler' = mix_pool
       \/ /\ algorithm = "genetic"
          /\ \E p \in Permutations(1..Len(mix_pool)) : urunler' = Permuted(mix_pool, p)
    /\ idx' = 1
    /\ pallets' = <<>>
    /\ current_pallet' = NewPallet(palet_cfg)
    /\ new_free_rects' = <<>>
    /\ path' = "none"
    /\ pc' = "pack"
    /\ UNCHANGED <<rot_gen, shelf, result,
                   palet_cfg, all_products, entry, algorithm, theo_min, groups, gi,
                   single_pallets, mix_pool, mix_pallets, total_pallets>>

\* main.py lines 142-153: the result, after the packer returned or with an
\* empty mix pool
Report ==
    /\ entry = "standalone"
    /\ \/ pc = "returned"
       \/ pc = "single" /\ gi > Len(groups) /\ mix_pool = <<>>
    /\ mix_pallets' = MixPallets(pallets)
    /\ total_pallets' = Len(single_pallets) + Len(pallets)
    /\ pc' = "done"
    /\ UNCHANGED <<rot_gen, shelf, result,
                   new_free_rects, path,
                   palet_cfg, all_products, entry, algorithm, theo_min, groups, gi,
                   single_pallets, mix_pool, urunler, idx, pallets, current_pallet>>

---------------------------------------------------------------------------
(* The legacy shelf packer: basit_palet_paketleme(chromosome, palet_cfg) *)

InitShelf ==
    \E inp \in ShelfInputs :
        /\ palet_cfg = inp.cfg
        /\ all_products = WithIds(inp.products)
        /\ entry = "shelf"
        /\ algorithm = "none"
        /\ pc = "shelf"
        /\ theo_min = 0
        /\ groups = <<>>
        /\ gi = 1
        /\ single_pallets = <<>>
        /\ mix_pool = <<>>
        /\ urunler = WithIds(inp.products)
        /\ idx = 1
        /\ pallets = <<>>
        /\ current_pallet = NewPallet(inp.cfg)
        /\ new_free_rects = <<>>
        /\ path = "none"
        /\ mix_pallets = <<>>
        /\ total_pallets = 0
        /\ rot_gen = inp.rot_gen
        /\ shelf = NewShelf
        /\ result = <<>>

\* pack_shelf_based: one iteration of the loop over urunler
ShelfItem ==
    /\ pc = "shelf"
    /\ idx <= Len(urunler)
    /\ shelf' = shelf_body(shelf, urunler[idx], rot_gen, idx, palet_cfg)
    /\ idx' = idx + 1
    /\ UNCHANGED <<palet_cfg, all_products, entry, algorithm, pc, theo_min, groups,
                   gi, single_pallets, mix_pool, urunler, pallets, current_pallet,
                   new_free_rects, path, mix_pallets, total_pallets, rot_gen,
                   result>>

\* pack_shelf_based: the loop is over, the pallet list is returned
ShelfFinish ==
    /\ pc = "shelf"
    /\ idx > Len(urunler)
    /\ shelf' = [shelf EXCEPT !.pallets = shelf_final(shelf)]
    /\ pc' = "shelf_returned"
    /\ UNCHANGED <<palet_cfg, all_products, entry, algorithm, theo_min, groups, gi,
                   single_pallets, mix_pool, urunler, idx, pallets, current_pallet,
                   new_free_rects, path, mix_pallets, total_pallets, rot_gen,
                   result>>

\* basit_palet_paketleme: the pallets are converted and returned
BasitPaletPaketleme ==
    /\ pc = "shelf_returned"
    /\ result' = basit_result(shelf.pallets)
    /\ pc' = "shelf_done"
    /\ UNCHANGED <<palet_cfg, all_products, entry, algorithm, theo_min, groups, gi,
                   single_pallets, mix_pool, urunler, idx, pallets, current_pallet,
                   new_free_rects, path, mix_pallets, total_pallets, rot_gen,
                   shelf>>

Init == InitPacker \/ InitPipeline \/ InitShelf

Next ==
    \/ ShelfItem
    \/ ShelfFinish
    \/ BasitPaletPaketleme
    \/ Load
    \/ ServiceLoad
    \/ StandaloneGroup
    \/ ServiceGroup
    \/ ServiceReturn
    \/ MixStage
    \/ PackItem
    \/ PackFinish
    \/ Report

Spec == Init /\ [][Next]_vars

---------------------------------------------------------------------------
(* Vocabulary of the properties *)

\* the pallets the packer has closed, and the open one
PackerPallets == {pallets[i] : i \in 1..Len(pallets)} \cup {Finalized(current_pallet)}

\* the packer has returned its pallet list (and the list is `pallets`)
PackerReturned == entry # "service" /\ pc \in {"returned", "done"}

\* the stand-alone pipeline has produced its report
StandaloneDone == entry = "standalone" /\ pc = "done"

\* two placements share interior points
ItemsOverlap(a, b) ==
    /\ a.x < b.x + b.L /\ b.x < a.x + a.L
    /\ a.y < b.y + b.W /\ b.y < a.y + a.W
    /\ a.z < b.z + b.H /\ b.z < a.z + a.H

InsidePallet(it, cfg) ==
    /\ 0 <= it.x /\ it.x + it.L <= cfg.length
    /\ 0 <= it.y /\ it.y + it.W <= cfg.width
    /\ 0 <= it.z /\ it.z + it.H <= cfg.height

\* no allowed orientation of u fits the empty pallet
Oversized(u, cfg) ==
    \A k \in 1..Len(possible_orientations_for(u)) :
        LET o == possible_orientations_for(u)[k]
        IN  ~can_fit(NewPallet(cfg).free_rects[1], o[1], o[2], o[3])

Overweight(u, cfg) == u.agirlik > cfg.max_weight

\* the ids of the products placed on a list of pallets, in order
PlacedIds(ps) ==
    Flatten([i \in 1..Len(ps) |->
                [j \in 1..Len(ps[i].items) |-> ps[i].items[j].urun.id]])

Occurrences(id, ids) == Cardinality({k \in 1..Len(ids) : ids[k] = id})

Sizes(ps) == [i \in 1..Len(ps) |-> Len(ps[i].items)]

TotalVolume(products) == SumSeq([i \in 1..Len(products) |-> urun_hacmi(products[i])])

TotalWeight(products) == SumSeq([i \in 1..Len(products) |-> products[i].agirlik])

IsRun(cfg, u, n) == palet_cfg = cfg /\ all_products = WithIds(Repeat(u, n))

---------------------------------------------------------------------------
(* C1 - C10 *)

\* C1: on every pallet of pack_maximal_rectangles (closed or open, hence on
\* every pallet it returns) no two placements overlap: each pair is disjoint
\* along at least one axis, touching faces allowed.
C1_NoOverlap ==
    \A p \in PackerPallets :
        \A i, j \in 1..Len(p.items) :
            i < j => ~ItemsOverlap(p.items[i], p.items[j])

\* C1 witness: a returned pallet with three placements, one of them stacked
\* and one of them beside another.
C1_Witness ==
    /\ PackerReturned
    /\ \E i \in 1..Len(pallets) :
        /\ Len(pallets[i].items) >= 3
        /\ \E j \in 1..Len(pallets[i].items) : pallets[i].items[j].z > 0
        /\ \E j \in 1..Len(pallets[i].items) : pallets[i].items[j].x > 0

\* C2: every placement of every pallet of pack_maximal_rectangles lies inside
\* the pallet cuboid, whatever the products (products larger than the pallet
\* included).
C2_InsidePallet ==
    \A p \in PackerPallets :
        \A i \in 1..Len(p.items) : InsidePallet(p.items[i], palet_cfg)

\* C3: on every pallet of pack_maximal_rectangles the weights of the placed
\* products sum to at most max_weight (products heavier than max_weight
\* included).
C3_WeightCap ==
    \A p \in PackerPallets :
        SumSeq([i \in 1..Len(p.items) |-> p.items[i].urun.agirlik])
            <= palet_cfg.max_weight

\* C4: conservation. When the stand-alone pipeline ends, and when the packer
\* called directly returns, every input product is in exactly one placement
\* of the returned pallets or is reported unplaced, so placed + unplaced =
\* input count.
C4_Conservation ==
    LET placed == IF entry = "standalone"
                  THEN PlacedIds(single_pallets \o mix_pallets)
                  ELSE PlacedIds(pallets)
        named == placed \o UnplacedReported
    IN  (StandaloneDone \/ (entry = "packer" /\ pc = "returned")) =>
            /\ Len(placed) + Len(UnplacedReported) = Len(all_products)
            /\ \A k \in 1..Len(all_products) :
                   Occurrences(all_products[k].id, named) = 1

\* C4 witness: a finished pipeline run of at least three products that
\* produced a SINGLE pallet and a MIX pallet.
C4_Witness ==
    /\ StandaloneDone
    /\ Len(all_products) >= 3
    /\ Len(single_pallets) >= 1
    /\ Len(mix_pallets) >= 1

\* C5: a product that fits the empty pallet in no allowed orientation is on
\* no returned pallet (it is unplaced); a run whose only product is
\* 120x50x50 on a 100x100x100 pallet returns no pallet.
C5_OversizedUnplaced ==
    PackerReturned =>
        /\ \A k \in 1..Len(urunler) :
               Oversized(urunler[k], palet_cfg) =>
                   Occurrences(urunler[k].id, PlacedIds(pallets)) = 0
        /\ IsRun(PaletConfig(100, 100, 100, 1000),
                 UrunData(0, "S4", 120, 50, 50, 10, TRUE), 1) => pallets = <<>>

\* C6: a product heavier than max_weight is on no returned pallet (it is
\* unplaced), and every other product that fits is still packed.
C6_OverweightUnplaced ==
    PackerReturned =>
        \A k \in 1..Len(urunler) :
            IF Overweight(urunler[k], palet_cfg)
            THEN Occurrences(urunler[k].id, PlacedIds(pallets)) = 0
            ELSE Oversized(urunler[k], palet_cfg)
                 \/ Occurrences(urunler[k].id, PlacedIds(pallets)) = 1

\* C7: the number of pallets returned is at least ceil(total product volume /
\* pallet volume) and at least ceil(total weight / max_weight).
C7_LowerBound ==
    LET count == IF entry = "standalone" THEN total_pallets ELSE Len(pallets)
    IN  (StandaloneDone \/ (entry = "packer" /\ pc = "returned")) =>
            /\ count >= CeilDiv(TotalVolume(all_products), Volume(palet_cfg))
            /\ count >= CeilDiv(TotalWeight(all_products), palet_cfg.max_weight)

\* C8: the theoretical minimum the pipeline reports is ceil(total product
\* volume / pallet volume), for every input.
C8_TheoreticalMin ==
    (entry = "standalone" /\ pc # "start") =>
        theo_min = CeilDiv(TotalVolume(all_products), Volume(palet_cfg))

\* what the single-pallet loop made of group g so far
PalletsOf(g) ==
    SelectSeq(single_pallets,
              LAMBDA p : \E i \in 1..Len(p.items), k \in 1..Len(g) :
                             p.items[i].urun.id = g[k].id)

PooledOf(g) ==
    SelectSeq(mix_pool, LAMBDA u : \E k \in 1..Len(g) : u.id = g[k].id)

\* C9 for one processed group: cap items on each of floor(n / cap) full
\* pallets, one more pallet of the r = n mod cap last items iff r > 0 and
\* r * item_volume / pallet volume >= 0.90, else those r items pooled; a group
\* that cannot be single is pooled whole.
C9_GroupSplit(g) ==
    LET sim == simulate_single_pallet(g, palet_cfg)
        cap == sim.capacity
        n == Len(g)
        full == n \div cap
        r == n % cap
        partial == r > 0 /\ 10 * r * urun_hacmi(g[1]) >= 9 * Volume(palet_cfg)
        made == PalletsOf(g)
    IN  IF sim.can_be_single
        THEN /\ Len(made) = full + (IF partial THEN 1 ELSE 0)
             /\ \A i \in 1..Len(made) : made[i].type = "SINGLE"
             /\ \A i \in 1..full :
                    /\ made[i].item_count = cap
                    /\ PlacedIds(<<made[i]>>)
                         = [k \in 1..cap |-> g[(i - 1) * cap + k].id]
             /\ partial => /\ made[full + 1].item_count = r
                           /\ PlacedIds(<<made[full + 1]>>)
                                = [k \in 1..r |-> g[n - r + k].id]
             /\ PooledOf(g) = IF partial THEN <<>> ELSE [k \in 1..r |-> g[n - r + k]]
        ELSE /\ made = <<>>
             /\ PooledOf(g) = g

\* C9: every group the single-pallet loop (of either orchestrator) has
\* processed is split as C9_GroupSplit says, nothing else is in
\* single_pallets or the mix pool, and nine 50x50x50 items on a 100x100x100
\* pallet end as 1 SINGLE pallet of 8 and 1 MIX pallet of 1.
C9_SingleSplit ==
    /\ pc # "start" =>
        /\ \A k \in 1..Len(groups) : k < gi => C9_GroupSplit(groups[k])
        /\ Len(single_pallets)
             = SumSeq([k \in 1..(gi - 1) |-> Len(PalletsOf(groups[k]))])
        /\ Len(mix_pool)
             = SumSeq([k \in 1..(gi - 1) |-> Len(PooledOf(groups[k]))])
    /\ (StandaloneDone /\ IsRun(PaletConfig(100, 100, 100, 1000),
                                UrunData(0, "S2", 50, 50, 50, 10, TRUE), 9)) =>
        /\ Sizes(single_pallets) = <<8>>
        /\ Sizes(mix_pallets) = <<1>>

\* C9 witness: the pipeline has finished on nine 50x50x50 items: the full
\* pallet of 8 is in single_pallets and the remainder of 1 went through the
\* mix pool onto a MIX pallet.
C9_Witness ==
    /\ StandaloneDone
    /\ IsRun(PaletConfig(100, 100, 100, 1000),
             UrunData(0, "S2", 50, 50, 50, 10, TRUE), 9)
    /\ Len(single_pallets) = 1
    /\ single_pallets[1].item_count = 8
    /\ Len(mix_pool) = 1
    /\ Len(mix_pallets) = 1

\* C10 as stated: ten 40x40x40 items of 11 kg on a 100x100x100 pallet of
\* 100 kg give 2 pallets, of 9 items and of 1 item.
C10_WeightSplit ==
    IsRun(PaletConfig(100, 100, 100, 100),
          UrunData(0, "S5", 40, 40, 40, 11, TRUE), 10) =>
        /\ (entry = "packer" /\ pc = "returned") => Sizes(pallets) = <<9, 1>>
        /\ StandaloneDone =>
              /\ total_pallets = 2
              /\ Sizes(single_pallets \o mix_pallets) = <<9, 1>>

\* C10 amended: the same run gives 2 pallets, of 8 items and of 2 items: the
\* 2 x 2 x 2 grid closes the first pallet before the weight cap can.
C10_GridSplit ==
    IsRun(PaletConfig(100, 100, 100, 100),
          UrunData(0, "S5", 40, 40, 40, 11, TRUE), 10) =>
        /\ (entry = "packer" /\ pc = "returned") => Sizes(pallets) = <<8, 2>>
        /\ StandaloneDone =>
              /\ total_pallets = 2
              /\ Sizes(single_pallets \o mix_pallets) = <<8, 2>>

\* C10 witness: the packer has returned for the ten 40x40x40 items, the
\* first pallet weighing 88 kg, a ninth item within the weight cap.
C10_Witness ==
    /\ IsRun(PaletConfig(100, 100, 100, 100),
             UrunData(0, "S5", 40, 40, 40, 11, TRUE), 10)
    /\ entry = "packer"
    /\ pc = "returned"
    /\ Len(pallets) = 2
    /\ pallets[1].weight + 11 <= palet_cfg.max_weight

---------------------------------------------------------------------------
(* C11 - C20 *)

\* pack_maximal_rectangles is running or has just returned
PackerActive == entry # "service" /\ pc \in {"pack", "returned"}

\* the triples possible_orientations_for returns for u
Orientations(u) ==
    {possible_orientations_for(u)[k] : k \in 1..Len(possible_orientations_for(u))}

\* C11: every placement of pack_maximal_rectangles, whichever branch made it
\* (best fit, retry on a fresh pallet, fallback), has for (L, W, H) one of
\* the triples possible_orientations_for returns for its product.
C11_OrientationLegal ==
    \A p \in PackerPallets :
        \A i \in 1..Len(p.items) :
            <<p.items[i].L, p.items[i].W, p.items[i].H>>
                \in Orientations(p.items[i].urun)

\* C11 witness: the last product went through the fallback, two pallets were
\* closed before it, and the first of them holds a product in its swapped
\* orientation.
C11_Witness ==
    /\ pc = "pack"
    /\ path = "fallback"
    /\ Len(pallets) >= 2
    /\ \E j \in 1..Len(pallets[1].items) :
           /\ pallets[1].items[j].L = pallets[1].items[j].urun.en
           /\ pallets[1].items[j].L # pallets[1].items[j].urun.boy

\* C12: the products of the closed pallets in pallet order, then those of the
\* open pallet, each pallet in placement order, are the input sequence up to
\* the product handled last; hence the returned pallets list the input in
\* its order and pallet i holds only products that precede those of pallet
\* i+1.
C12_InputOrder ==
    PackerActive =>
        PlacedIds(IF pc = "pack"
                  THEN Append(pallets, Finalized(current_pallet))
                  ELSE pallets)
            = [k \in 1..(idx - 1) |-> urunler[k].id]

\* C12 witness: the packer has returned two pallets or more for a mix pool
\* that run_ga had put in another order than the pool's.
C12_Witness ==
    /\ entry = "standalone"
    /\ pc = "returned"
    /\ urunler # mix_pool
    /\ Len(urunler) >= 3
    /\ Len(pallets) >= 2

\* C13: no pallet in the packer's list is empty, and the empty input gives
\* the empty list.
C13_NoEmptyPallet ==
    /\ \A i \in 1..Len(pallets) : pallets[i].items # <<>>
    /\ (PackerReturned /\ urunler = <<>>) => pallets = <<>>

\* C13 witness: the product handled last overflowed the weight of the pallet
\* closed last (so the weight check closed it) and then fitted nowhere.
C13_Witness ==
    /\ pc = "pack"
    /\ path = "fallback"
    /\ Len(pallets) >= 1
    /\ Len(current_pallet.items) = 1
    /\ pallets[Len(pallets)].weight + current_pallet.items[1].urun.agirlik
           > palet_cfg.max_weight

\* one step leaves every closed pallet as it is and either appends one
\* placement to the open pallet, or closes the open pallet and opens a new
\* one, or leaves the open pallet alone
C14_Step ==
    /\ Len(pallets') >= Len(pallets)
    /\ SubSeq(pallets', 1, Len(pallets)) = pallets
    /\ \/ /\ pallets' = pallets
          /\ Len(current_pallet'.items) = Len(current_pallet.items) + 1
          /\ SubSeq(current_pallet'.items, 1, Len(current_pallet.items))
                = current_pallet.items
       \/ /\ current_pallet.items # <<>>
          /\ pallets' = Append(pallets, Finalized(current_pallet))
          /\ Len(current_pallet'.items) = 1
       \/ /\ current_pallet' = current_pallet
          /\ pallets' \in {pallets, Append(pallets, Finalized(current_pallet))}

\* C14: placements are append-only: the open pallet's list only grows at its
\* end, and a pallet that is in the output list keeps its placements and its
\* weight in every later step.
C14_AppendOnly == [][C14_Step]_vars

\* C14 witness: the packer is running with a closed pallet behind it and two
\* placements or more on the open pallet.
C14_Witness ==
    /\ pc = "pack"
    /\ Len(pallets) >= 1
    /\ Len(current_pallet.items) >= 2

\* a step of the packer's loop: the product urunler[idx] is handled
PackStep == pc = "pack" /\ idx' = idx + 1

\* the free rects of the pallet the product of a PackStep lands on, as they
\* were when it was placed: those of the open pallet when that pallet went
\* on, the single rect of a fresh pallet otherwise
RectsAtPlacement ==
    IF Len(current_pallet'.items) = Len(current_pallet.items) + 1
    THEN current_pallet.free_rects
    ELSE NewPallet(palet_cfg).free_rects

\* the (orientation, free rect) pairs in which the product of a PackStep fits
FittingPairs ==
    {q \in Orientations(urunler[idx])
           \X {RectsAtPlacement[i] : i \in 1..Len(RectsAtPlacement)} :
        can_fit(q[2], q[1][1], q[1][2], q[1][3])}

ShortSideResidual(q) == Min(q[2].length - q[1][1], q[2].width - q[1][2])

VolumeResidual(q) == RectVolume(q[2]) - q[1][1] * q[1][2] * q[1][3]

\* the placement a PackStep made
Placed == current_pallet'.items[Len(current_pallet'.items)]

\* the placement has q's orientation and sits at the corner of q's rect
PlacedAs(q) ==
    /\ <<Placed.L, Placed.W, Placed.H>> = q[1]
    /\ <<Placed.x, Placed.y, Placed.z>> = <<q[2].x, q[2].y, q[2].z>>

\* C15: when the product fits somewhere on the open pallet, it is placed in
\* the orientation and at the (x, y, z) corner of a fitting (orientation,
\* free rect) pair whose short-side residual min(rect.length - L, rect.width
\* - W) is the minimum over all fitting pairs of that pallet.
C15_ShortSideFit ==
    [][(PackStep /\ FittingPairs # {}) =>
          \E q \in FittingPairs :
              /\ PlacedAs(q)
              /\ \A r \in FittingPairs :
                     ShortSideResidual(q) <= ShortSideResidual(r)]_vars

\* C15 witness: the product handled last fitted the open pallet beside or
\* above earlier ones, in its swapped orientation.
C15_Witness ==
    /\ pc = "pack"
    /\ path = "fit"
    /\ Len(current_pallet.items) >= 2
    /\ LET it == current_pallet.items[Len(current_pallet.items)]
       IN  /\ <<it.x, it.y, it.z>> # <<0, 0, 0>>
           /\ it.L = it.urun.en
           /\ it.L # it.urun.boy

\* C16: when fitting pairs tie on the minimum short-side residual, the
\* product is placed as one of the tied pairs whose volume residual
\* rect.volume - L*W*H is the lowest among the tied pairs.
C16_VolumeTieBreak ==
    [][(PackStep /\ FittingPairs # {}) =>
          \E q \in FittingPairs :
              /\ PlacedAs(q)
              /\ \A r \in FittingPairs :
                     /\ ShortSideResidual(q) <= ShortSideResidual(r)
                     /\ ShortSideResidual(q) = ShortSideResidual(r)
                            => VolumeResidual(q) <= VolumeResidual(r)]_vars

\* the elements of a sequence
Range(seq) == {seq[i] : i \in 1..Len(seq)}

\* the packer's loop has just placed a product
AfterPlacement == pc = "pack" /\ path # "none"

\* the free rects and placements of the open pallet and the rects of
\* new_free_rects, each as <<x, y, z, length, width, height>>
Boxes ==
    {<<r.x, r.y, r.z, r.length, r.width, r.height>> :
        r \in Range(current_pallet.free_rects) \cup Range(new_free_rects)}
    \cup {<<it.x, it.y, it.z, it.L, it.W, it.H>> :
            it \in Range(current_pallet.items)}

\* the coordinates along axis a (1, 2, 3) at which a box or the pallet
\* starts or ends, inside the pallet: between two neighbours every box is
\* all in or all out
Cuts(a, limit) ==
    {c \in {0} \cup UNION {{b[a], b[a] + b[a + 3]} : b \in Boxes} :
        0 <= c /\ c < limit}

\* one point per cell of the grid the cuts draw in the pallet
GridPoints ==
    Cuts(1, palet_cfg.length) \X Cuts(2, palet_cfg.width)
        \X Cuts(3, palet_cfg.height)

InRect(p, r) ==
    /\ r.x <= p[1] /\ p[1] < r.x + r.length
    /\ r.y <= p[2] /\ p[2] < r.y + r.width
    /\ r.z <= p[3] /\ p[3] < r.z + r.height

InItem(p, it) ==
    /\ it.x <= p[1] /\ p[1] < it.x + it.L
    /\ it.y <= p[2] /\ p[2] < it.y + it.W
    /\ it.z <= p[3] /\ p[3] < it.z + it.H

\* C17: of the list handed to remove_redundant_rectangles (new_free_rects)
\* the returned list (the open pallet's free rects) keeps rects of the list
\* only, every rect it dropped lies inside a rect it kept, and both lists
\* cover the same points.
C17_PruneKeepsLarger ==
    AfterPlacement =>
        /\ Range(current_pallet.free_rects) \subseteq Range(new_free_rects)
        /\ \A i \in 1..Len(new_free_rects) :
               new_free_rects[i] \notin Range(current_pallet.free_rects) =>
                   \E j \in 1..Len(current_pallet.free_rects) :
                       is_contained_in(new_free_rects[i], current_pallet.free_rects[j])
        /\ \A p \in GridPoints :
               (\E r \in Range(new_free_rects) : InRect(p, r))
                   <=> (\E r \in Range(current_pallet.free_rects) : InRect(p, r))

\* C17 witness: the last pruning dropped two rects or more and kept two or
\* more.
C17_Witness ==
    /\ AfterPlacement
    /\ Len(current_pallet.free_rects) >= 2
    /\ Len(new_free_rects) >= Len(current_pallet.free_rects) + 2

\* C18: every free rect of the open pallet has positive length, width and
\* height and lies inside the pallet, also after a product larger than the
\* pallet was placed.
C18_FreeRectsInside ==
    \A i \in 1..Len(current_pallet.free_rects) :
        LET r == current_pallet.free_rects[i]
        IN  /\ r.length > 0 /\ r.width > 0 /\ r.height > 0
            /\ r.x >= 0 /\ r.y >= 0 /\ r.z >= 0
            /\ r.x + r.length <= palet_cfg.length
            /\ r.y + r.width <= palet_cfg.width
            /\ r.z + r.height <= palet_cfg.height

\* C18 witness: the fallback has just placed a product that sticks out of
\* the pallet, and free rects are left beside it.
C18_Witness ==
    /\ pc = "pack"
    /\ path = "fallback"
    /\ ~InsidePallet(current_pallet.items[1], palet_cfg)
    /\ Len(current_pallet.free_rects) >= 2

\* C19: after a placement step the free rects of the open pallet are its
\* unoccupied space: no free rect shares a point with a placement, and every
\* point of the pallet outside all placements is in a free rect.
C19_FreeSpaceExact ==
    AfterPlacement =>
        \A p \in GridPoints :
            (\E i \in 1..Len(current_pallet.items) :
                 InItem(p, current_pallet.items[i]))
                <=> ~(\E r \in Range(current_pallet.free_rects) : InRect(p, r))

\* C19 witness: three placements or more on the open pallet, overlapping
\* free rects left, and the last pruning dropped a rect.
C19_Witness ==
    /\ AfterPlacement
    /\ Len(current_pallet.items) >= 3
    /\ Len(new_free_rects) > Len(current_pallet.free_rects)
    /\ \E i, j \in 1..Len(current_pallet.free_rects) :
           /\ i < j
           /\ \E p \in GridPoints : /\ InRect(p, current_pallet.free_rects[i])
                                     /\ InRect(p, current_pallet.free_rects[j])

\* what the orchestrator that is not running would make of group g
OtherOrchestrator(g) ==
    IF entry = "standalone" THEN service_group(g, palet_cfg)
    ELSE standalone_group(g, palet_cfg)

\* C20: the two orchestrators agree: after each group of the single-pallet
\* loop, and when the service loop has ended, the single pallets and the mix
\* pool of the running orchestrator are those the other orchestrator builds
\* from the same groups (same full pallets, same partial pallet or none,
\* same items pooled).
C20_OrchestratorsAgree ==
    (pc = "single" \/ (entry = "service" /\ pc = "done")) =>
        /\ single_pallets
             = Flatten([k \in 1..(gi - 1) |-> OtherOrchestrator(groups[k]).single])
        /\ mix_pool
             = Flatten([k \in 1..(gi - 1) |-> OtherOrchestrator(groups[k]).mix])

\* C20 witness: the service loop has ended on an input with a group that
\* fills whole pallets with remainder 0 and a group that could be single but
\* is smaller than the capacity.
C20_Witness ==
    /\ entry = "service"
    /\ pc = "done"
    /\ \E k \in 1..Len(groups) :
           LET sim == simulate_single_pallet(groups[k], palet_cfg)
           IN  /\ sim.can_be_single
               /\ Len(groups[k]) % sim.capacity = 0
    /\ \E k \in 1..Len(groups) :
           LET sim == simulate_single_pallet(groups[k], palet_cfg)
           IN  /\ sim.can_be_single
               /\ Len(groups[k]) < sim.capacity
    /\ single_pallets # <<>>
    /\ mix_pool # <<>>

---------------------------------------------------------------------------
(* C21 *)

\* C21: every pallet pack_shelf_based has put in its list, and every pallet
\* basit_palet_paketleme returns, holds at least one item, whatever the
\* products, the rotation genes and the pallet.
C21_ShelfNoEmptyPallet ==
    /\ \A i \in 1..Len(shelf.pallets) : shelf.pallets[i].items # <<>>
    /\ \A i \in 1..Len(result) : result[i].placements # <<>>

====
